---- MODULE Spec2Model ----
(***************************************************************************)
(* OGL::ProgramShaderCache (Source/Core/VideoBackends/OGL/                 *)
(* ProgramShaderCache.cpp): the in-memory program map with its last-used   *)
(* fast path, the compile/link pipeline, the replay and the writing of the *)
(* program-binary disk log, SHADER::Bind, and the uniform upload.          *)
(*                                                                         *)
(* The GL driver is part of the state: its table of program objects and    *)
(* the program it has in use.  glCreateProgram hands out any name that is  *)
(* not in use at the moment, so a name deleted earlier can come back.      *)
(* Every handler is one action; `ev` records what the last handler did     *)
(* (its result and the driver calls it issued).                            *)
(***************************************************************************)
EXTENDS Integers, Sequences, FiniteSets, TLC

\* ---------------------------------------------------------------- bounds
NumKeys == 3        \* distinct SHADERUID values
MaxProg == 2        \* GL program names the driver hands out: 1..MaxProg
MaxLog == 2         \* records the disk log can hold
MaxBin == 1         \* largest GL_PROGRAM_BINARY_LENGTH the driver reports

\* ------------------------------------------------------- program constants
SizeofGLenum == 4

Keys == 1..NumKeys
ProgIds == 1..MaxProg
Null == 0           \* nullptr, and GL's name 0 (no program)

VARIABLES
  phase,                  \* "down": before Init / after Shutdown; "up": between them
  pshaders,               \* PCache: SHADERUID -> PCacheEntry
  last_entry,             \* PCacheEntry*: Null or the key whose entry it points to
  last_uid,               \* SHADERUID of the last SetShader that left the fast path
  CurrentProgram,         \* the tracked currently bound program
  hist,                   \* per key: outcome of its CompileShader in this session
  glCurrent,              \* driver: the program in use
  glPrograms,             \* driver: the program objects by name
  bSupportsGLSLCache,     \* g_ogl_config.bSupportsGLSLCache
  bSupportsBindingLayout, \* g_ActiveConfig.backend_info.bSupportsBindingLayout
  glNumBinaryFormats,     \* driver: GL_NUM_PROGRAM_BINARY_FORMATS
  disk,                   \* the disk log: the records of the cache file, in file order
  diskOpen,               \* g_program_disk_cache has its file open
  dirty,                  \* IsDirty() of the pixel, vertex and geometry constants
  s_ubo_align,            \* ProgramShaderCache::s_ubo_align
  s_ubo_buffer_size,      \* ProgramShaderCache::s_ubo_buffer_size
  s_buffer,               \* s_buffer: Null, or 1 while the StreamBuffer exists
  drvAlign,               \* driver: GL_UNIFORM_BUFFER_OFFSET_ALIGNMENT
  blockSize,              \* byte lengths of the PS, VS and GS constant blocks
  ev                      \* what the last handler did

cacheVars == <<pshaders, last_entry, last_uid, CurrentProgram, hist>>
glVars == <<glCurrent, glPrograms>>
cfgVars == <<bSupportsGLSLCache, bSupportsBindingLayout, glNumBinaryFormats>>
diskVars == <<disk, diskOpen>>
uboVars == <<dirty, s_ubo_align, s_ubo_buffer_size, s_buffer, drvAlign, blockSize>>
vars == <<phase, cacheVars, glVars, cfgVars, diskVars, uboVars, ev>>

\* ------------------------------------------------------------ the driver
\* A free program name.
NoProgram == [live |-> FALSE, linked |-> FALSE, del |-> FALSE]

\* Is `id` the name of a program object?
IsProgram(progs, id) == id \in ProgIds /\ progs[id].live

\* glUseProgram(id) succeeds for 0 and for a linked program object; for any
\* other value it raises a GL error and leaves the program in use alone.
UseOk(progs, id) == id = Null \/ (IsProgram(progs, id) /\ progs[id].linked)

\* glDeleteProgram(id): frees the object, or only flags it while it is in use.
\* 0 and names of no object are ignored.
glDeleteProgram(st, id) ==
  IF ~IsProgram(st.glPrograms, id) THEN st
  ELSE IF st.glCurrent = id
       THEN [st EXCEPT !.glPrograms[id].del = TRUE]
       ELSE [st EXCEPT !.glPrograms[id] = NoProgram]

\* glUseProgram(id): one driver call.  A program flagged for deletion goes
\* away when it stops being in use.
glUseProgram(st, id) ==
  LET called == [st EXCEPT !.use = @ + 1]
      old == st.glCurrent
  IN IF ~UseOk(st.glPrograms, id) THEN called
     ELSE IF old # id /\ IsProgram(st.glPrograms, old) /\ st.glPrograms[old].del
          THEN [called EXCEPT !.glCurrent = id, !.glPrograms[old] = NoProgram]
          ELSE [called EXCEPT !.glCurrent = id]

\* glCreateProgram() returning the name pid: an empty, unlinked object.
glCreateProgram(st, pid) ==
  [st EXCEPT !.glPrograms[pid] = [NoProgram EXCEPT !.live = TRUE]]

\* The names glCreateProgram can return.
FreeNames(progs) == {p \in ProgIds : ~progs[p].live}

\* ------------------------------------------------------------ SHADER
\* A key the map has no entry for.
Absent == [in_map |-> FALSE, glprogid |-> Null, in_cache |-> FALSE]

\* A PCacheEntry as SetShader's pshaders[uid] constructs it: SHADER() leaves
\* glprogid 0, and SetShader clears in_cache.
NewEntry == [in_map |-> TRUE, glprogid |-> Null, in_cache |-> FALSE]

\* The keys the map holds.
MapKeys(ps) == {k \in Keys : ps[k].in_map}

\* The state a handler works on: the map, the tracked program, the driver,
\* the counts of what it has done so far (glUseProgram calls, increments of
\* stats.thisFrame.numShaderChanges, increments of num_failures), the
\* disk records the driver has accepted, each with the name of the program
\* made from it, the stages handed to glCompileShader, the stages a
\* PanicAlert was raised for, and the stage shader objects that exist and
\* were not handed to glDeleteShader.
Start ==
  [pshaders |-> pshaders, CurrentProgram |-> CurrentProgram,
   glCurrent |-> glCurrent, glPrograms |-> glPrograms,
   use |-> 0, chg |-> 0, dumps |-> 0, acc |-> {},
   sub |-> <<>>, bad |-> <<>>, sh |-> {}]

BindAlways(st, glprogid) ==
  [glUseProgram(st, glprogid) EXCEPT !.chg = @ + 1, !.CurrentProgram = glprogid]

\* SHADER::Bind
Bind(st, glprogid) ==
  IF st.CurrentProgram # glprogid
  THEN [glUseProgram([st EXCEPT !.chg = @ + 1], glprogid)
          EXCEPT !.CurrentProgram = glprogid]
  ELSE st

\* SHADER::SetProgramVariables: without binding-layout support the program
\* is bound to set its block bindings and samplers.
SetProgramVariables(st, glprogid, bindingLayout) ==
  IF ~bindingLayout THEN Bind(st, glprogid) ELSE st

\* ------------------------------------------------- the compile pipeline
\* DEBUG_GLSL of a release build: info logs are dumped on failure only.
DEBUG_GLSL == FALSE

\* What the driver answers to one CompileShader request: whether geometry
\* source is given, each stage's GL_COMPILE_STATUS, the GL_LINK_STATUS and
\* the name glCreateProgram returns.  Answers that are never asked for are
\* held at one value.
StagesOk(in) == in.vs /\ in.ps /\ (in.hasG => in.gs)
CompileInputs ==
  {in \in [hasG : BOOLEAN, vs : BOOLEAN, ps : BOOLEAN, gs : BOOLEAN,
           link : BOOLEAN, pid : ProgIds] :
     /\ ~in.hasG => in.gs
     /\ ~StagesOk(in) => (in.link /\ in.pid = 1)}

\* The stage shader objects of one request, named by their stage.
GL_VERTEX_SHADER == 1
GL_FRAGMENT_SHADER == 2
GL_GEOMETRY_SHADER == 3

\* glCreateShader(type): one more stage shader object.
glCreateShader(st, type) == [st EXCEPT !.sh = @ \cup {type}]

\* glDeleteShader(id): the object is handed back to the driver; 0 is ignored.
glDeleteShader(st, id) == IF id = Null THEN st ELSE [st EXCEPT !.sh = @ \ {id}]

\* CompileSingleShader leaving the object of a failed compile in place.
CompileSingleShaderKeeps(st, type, ok) ==
  LET compiled == [glCreateShader(st, type) EXCEPT !.sub = Append(@, type)]
      dumped == IF ~ok \/ DEBUG_GLSL
                THEN [compiled EXCEPT !.dumps = @ + 1] ELSE compiled
      alerted == IF ~ok THEN [dumped EXCEPT !.bad = Append(@, type)] ELSE dumped
  IN [st |-> alerted, id |-> IF ok THEN type ELSE Null]

\* ProgramShaderCache::CompileSingleShader: the shader object's name, or 0
\* when the compile failed.  A dump is written on failure or on a log, a
\* PanicAlert raised on failure, and the object of a failed compile deleted.
CompileSingleShader(st, type, ok) ==
  LET compiled == [glCreateShader(st, type) EXCEPT !.sub = Append(@, type)]
      dumped == IF ~ok \/ DEBUG_GLSL
                THEN [compiled EXCEPT !.dumps = @ + 1] ELSE compiled
      alerted == IF ~ok THEN [dumped EXCEPT !.bad = Append(@, type)] ELSE dumped
  IN IF ok THEN [st |-> alerted, id |-> type]
     ELSE [st |-> glDeleteShader(alerted, type), id |-> Null]

\* The three glDeleteShader calls on the request's stage objects.
DeleteStages(st, vsid, psid, gsid) ==
  glDeleteShader(glDeleteShader(glDeleteShader(st, vsid), psid), gsid)

\* CompileShader giving up at the first stage whose compile fails.
CompileShaderAborting(st, k, in, bindingLayout) ==
  LET v == CompileSingleShader(st, GL_VERTEX_SHADER, in.vs)
      p == IF v.id = Null THEN v
           ELSE CompileSingleShader(v.st, GL_FRAGMENT_SHADER, in.ps)
      g == IF p.id = Null \/ ~in.hasG THEN [st |-> p.st, id |-> Null]
           ELSE CompileSingleShader(p.st, GL_GEOMETRY_SHADER, in.gs)
      created == [glCreateProgram(g.st, in.pid)
                    EXCEPT !.pshaders[k].glprogid = in.pid]
      linked == IF in.link
                THEN [created EXCEPT !.glPrograms[in.pid].linked = TRUE]
                ELSE created
      freed == DeleteStages(linked, v.id, p.id, g.id)
  IN IF v.id = Null \/ p.id = Null \/ (in.hasG /\ g.id = Null)
     THEN [st |-> DeleteStages(g.st, v.id, IF v.id = Null THEN Null ELSE p.id, g.id),
           ok |-> FALSE, stage |-> TRUE]
     ELSE IF ~in.link
          THEN [st |-> glDeleteProgram([freed EXCEPT !.dumps = @ + 1], in.pid),
                ok |-> FALSE, stage |-> FALSE]
          ELSE [st |-> SetProgramVariables(freed, in.pid, bindingLayout),
                ok |-> TRUE, stage |-> FALSE]

\* ProgramShaderCache::CompileShader on the shader of the map's entry k.
CompileShader(st, k, in, bindingLayout) ==
  LET v == CompileSingleShader(st, GL_VERTEX_SHADER, in.vs)
      p == CompileSingleShader(v.st, GL_FRAGMENT_SHADER, in.ps)
      g == IF in.hasG THEN CompileSingleShader(p.st, GL_GEOMETRY_SHADER, in.gs)
           ELSE [st |-> p.st, id |-> Null]
      created == [glCreateProgram(g.st, in.pid)
                    EXCEPT !.pshaders[k].glprogid = in.pid]
      linked == IF in.link
                THEN [created EXCEPT !.glPrograms[in.pid].linked = TRUE]
                ELSE created
      freed == DeleteStages(linked, v.id, p.id, g.id)
      logged == IF ~in.link \/ DEBUG_GLSL
                THEN [freed EXCEPT !.dumps = @ + 1] ELSE freed
  IN IF v.id = Null \/ p.id = Null \/ (in.hasG /\ g.id = Null)
     THEN [st |-> DeleteStages(g.st, v.id, p.id, g.id), ok |-> FALSE, stage |-> TRUE]
     ELSE IF ~in.link
          THEN [st |-> glDeleteProgram(logged, in.pid), ok |-> FALSE, stage |-> FALSE]
          ELSE [st |-> SetProgramVariables(logged, in.pid, bindingLayout),
                ok |-> TRUE, stage |-> FALSE]

\* ------------------------------------------------------------ observations
EvNone ==
  [op |-> "none", uid |-> Null, ret |-> Null, fast |-> FALSE,
   compile |-> 0, stage |-> FALSE, use |-> 0, chg |-> 0, dumps |-> 0,
   sub |-> <<>>, bad |-> <<>>, sh |-> {},
   gate |-> FALSE, replay |-> FALSE, acc |-> {}, ans |-> <<>>, cnt |-> <<0, 0, 0>>,
   maps |-> <<>>, unmaps |-> 0, binds |-> <<>>, bytes |-> 0]

\* The record of a handler that ended in state st: its name, the key it was
\* given, the entry whose shader it returned (Null: nullptr), the
\* CompileShader calls it made, whether a stage compile failed, and st's
\* counts.
EvOf(op, uid, ret, st, compile, stage) ==
  [EvNone EXCEPT !.op = op, !.uid = uid, !.ret = ret,
     !.compile = compile, !.stage = stage,
     !.use = st.use, !.chg = st.chg, !.dumps = st.dumps, !.acc = st.acc,
     !.sub = st.sub, !.bad = st.bad, !.sh = st.sh]

\* The handler's state becomes the program's.
Commit(st) ==
  /\ pshaders' = st.pshaders
  /\ CurrentProgram' = st.CurrentProgram
  /\ glCurrent' = st.glCurrent
  /\ glPrograms' = st.glPrograms

\* ------------------------------------------------------------ SetShader
LookupNever(ps, uid) == FALSE

\* pshaders.find(uid) != pshaders.end()
Lookup(ps, uid) == ps[uid].in_map

\* The fast path taken without comparing the uid.
FastPathAnyUid(uid) == last_entry # Null

\* if (last_entry) if (uid == last_uid): the shader is already set.
FastPath(uid) == last_entry # Null /\ uid = last_uid

\* The requests without geometry source (gcode is null).
NoGeometryInputs == {in \in CompileInputs : ~in.hasG}

\* ProgramShaderCache::SetShader for the state whose SHADERUID is uid, the
\* driver's answers to a compile request being drawn from inputs.
SetShaderWith(uid, inputs) ==
  /\ phase = "up"
  /\ IF FastPath(uid)
     THEN \* the shader is already set
          LET st == Bind(Start, pshaders[last_entry].glprogid)
          IN /\ Commit(st)
             /\ ev' = [EvOf("SetShader", uid, last_entry, st, 0, FALSE)
                         EXCEPT !.fast = TRUE]
             /\ UNCHANGED <<last_entry, last_uid, hist>>
     ELSE IF Lookup(pshaders, uid)
     THEN \* the shader is already in the cache
          LET st == Bind(Start, pshaders[uid].glprogid)
          IN /\ Commit(st)
             /\ last_uid' = uid
             /\ last_entry' = uid
             /\ ev' = EvOf("SetShader", uid, uid, st, 0, FALSE)
             /\ UNCHANGED hist
     ELSE \* make an entry in the table and compile
          \E in \in inputs :
            /\ StagesOk(in) => in.pid \in FreeNames(glPrograms)
            /\ LET made == [Start EXCEPT !.pshaders[uid] = NewEntry]
                   c == CompileShader(made, uid, in, bSupportsBindingLayout)
                   st == IF c.ok THEN Bind(c.st, c.st.pshaders[uid].glprogid)
                         ELSE c.st
               IN /\ Commit(st)
                  /\ last_uid' = uid
                  /\ last_entry' = uid
                  /\ hist' = [hist EXCEPT ![uid] = IF c.ok THEN "ok" ELSE "failed"]
                  /\ ev' = EvOf("SetShader", uid, IF c.ok THEN uid ELSE Null,
                                st, 1, c.stage)
  /\ UNCHANGED <<phase, cfgVars, diskVars, uboVars>>

\* SetShader for any request.
SetShader(uid) == SetShaderWith(uid, CompileInputs)

\* SetShader for a state that needs no geometry shader.
SetShaderNoGeometry(uid) == SetShaderWith(uid, NoGeometryInputs)

\* SHADER::Bind called by the renderer on the shader of the map's entry k.
BindShader(k) ==
  /\ phase = "up"
  /\ pshaders[k].in_map
  /\ LET st == Bind(Start, pshaders[k].glprogid)
     IN /\ Commit(st)
        /\ ev' = EvOf("Bind", k, k, st, 0, FALSE)
  /\ UNCHANGED <<phase, last_entry, last_uid, hist, cfgVars, diskVars, uboVars>>

\* ------------------------------------------------------------ the disk log
\* LinearDiskCache::Append: one more record at the end of the open file.
DiskAppend(log, key, value_size) ==
  Append(log, [key |-> key, size |-> value_size])

InsertIfAbsent(ps, key, entry) ==
  IF ps[key].in_map THEN ps ELSE [ps EXCEPT ![key] = entry]

InsertNothing(ps, key, entry) == ps

\* pshaders[key] = entry
Insert(ps, key, entry) == [ps EXCEPT ![key] = entry]

\* Read storing the entry before it looks at the link status.
ReadStoresFirst(st, i, accept, pid, bindingLayout) ==
  LET key == disk[i].key
      created == glCreateProgram(st, pid)
      entry == [in_map |-> TRUE, glprogid |-> pid, in_cache |-> TRUE]
      stored == [created EXCEPT !.pshaders = [@ EXCEPT ![key] = entry]]
      loaded == [stored EXCEPT
                   !.glPrograms[pid].linked = TRUE,
                   !.acc = @ \cup {<<i, pid>>}]
  IN IF accept
     THEN SetProgramVariables(loaded, pid, bindingLayout)
     ELSE glDeleteProgram(stored, pid)

\* ProgramShaderCacheInserter::Read on record i of the log.  accept is the
\* GL_LINK_STATUS the driver reports after glProgramBinary, pid the name
\* glCreateProgram returns.
Read(st, i, accept, pid, bindingLayout) ==
  LET key == disk[i].key
      created == glCreateProgram(st, pid)
      loaded == [created EXCEPT
                   !.glPrograms[pid].linked = TRUE,
                   !.acc = @ \cup {<<i, pid>>}]
      entry == [in_map |-> TRUE, glprogid |-> pid, in_cache |-> TRUE]
      stored == [loaded EXCEPT !.pshaders = Insert(@, key, entry)]
  IN IF accept
     THEN SetProgramVariables(stored, pid, bindingLayout)
     ELSE glDeleteProgram(created, pid)

\* LinearDiskCache::OpenAndRead: Read on every record from i on, in file
\* order; the set of states the driver's answers can lead to.
RECURSIVE OpenAndRead(_, _, _)
OpenAndRead(st, i, bindingLayout) ==
  IF i > Len(disk) THEN {st}
  ELSE UNION { OpenAndRead(Read(st, i, accept, pid, bindingLayout), i + 1, bindingLayout) :
                 accept \in BOOLEAN, pid \in FreeNames(st.glPrograms) }

\* ------------------------------------------------------------ Init
\* ROUND_UP(x, a): x rounded up to a multiple of a.
ROUND_UP(x, a) == IF a > 0 THEN ((x + a - 1) \div a) * a ELSE 0

\* The gate of the disk cache, as Init and Shutdown test it;
\* bEnableShaderDebugging is g_Config's value at that moment.
CacheGate(bEnableShaderDebugging) == bSupportsGLSLCache /\ ~bEnableShaderDebugging

\* ProgramShaderCache::Init.  debugging: g_Config.bEnableShaderDebugging.
ProgramShaderCache_Init ==
  /\ phase = "down"
  /\ phase' = "up"
  /\ s_ubo_align' = drvAlign
  /\ s_ubo_buffer_size' = ROUND_UP(blockSize[1], drvAlign)
                          + ROUND_UP(blockSize[2], drvAlign)
                          + ROUND_UP(blockSize[3], drvAlign)
  /\ s_buffer' = 1
  /\ \E debugging \in BOOLEAN :
       LET gate == CacheGate(debugging)
           Supported == glNumBinaryFormats
           replay == gate /\ Supported # 0
       IN /\ bSupportsGLSLCache' = (bSupportsGLSLCache /\ (gate => Supported # 0))
          /\ diskOpen' = (diskOpen \/ replay)
          /\ \E st \in (IF replay THEN OpenAndRead(Start, 1, bSupportsBindingLayout)
                        ELSE {Start}) :
               /\ Commit([st EXCEPT !.CurrentProgram = Null])
               /\ ev' = [EvOf("Init", Null, Null, st, 0, FALSE) EXCEPT
                           !.gate = gate, !.replay = replay]
  /\ last_entry' = Null
  /\ hist' = [k \in Keys |-> "none"]
  /\ UNCHANGED <<last_uid, bSupportsBindingLayout, glNumBinaryFormats, disk,
                 dirty, drvAlign, blockSize>>

\* ------------------------------------------------------------ Shutdown
\* What the driver can answer to Shutdown's queries on a program object:
\* its GL_PROGRAM_BINARY_LENGTH, and whether glGetProgramBinary raises a GL
\* error.
Answers == [binary_size : 0..MaxBin, fails : BOOLEAN]

StoresPersisted(e, progs, ans) ==
  /\ IsProgram(progs, e.glprogid)
  /\ progs[e.glprogid].linked
  /\ ~progs[e.glprogid].del
  /\ ans.binary_size # 0
  /\ ~ans.fails

\* Shutdown's tests on one entry: it is written unless it is marked as in
\* the cache, a query raises a GL error (glprogid names no program), the
\* program is not linked, is flagged for deletion or has no binary, or
\* glGetProgramBinary fails.
Stores(e, progs, ans) ==
  /\ ~e.in_cache
  /\ IsProgram(progs, e.glprogid)
  /\ progs[e.glprogid].linked
  /\ ~progs[e.glprogid].del
  /\ ans.binary_size # 0
  /\ ~ans.fails

\* Shutdown's first loop, from key k on: the log after it.
RECURSIVE StoreAll(_, _, _, _, _)
StoreAll(log, k, ps, progs, ans) ==
  IF k > NumKeys THEN log
  ELSE IF ps[k].in_map /\ Stores(ps[k], progs, ans[k])
       THEN StoreAll(DiskAppend(log, k, ans[k].binary_size + SizeofGLenum),
                     k + 1, ps, progs, ans)
       ELSE StoreAll(log, k + 1, ps, progs, ans)

\* SHADER::Destroy on the shader of entry k.
Destroy(st, k) ==
  [glDeleteProgram(st, st.pshaders[k].glprogid) EXCEPT !.pshaders[k].glprogid = Null]

\* Shutdown's second loop, from key k on.
RECURSIVE DestroyAll(_, _)
DestroyAll(st, k) ==
  IF k > NumKeys THEN st
  ELSE IF st.pshaders[k].in_map THEN DestroyAll(Destroy(st, k), k + 1)
       ELSE DestroyAll(st, k + 1)

\* The entries Shutdown asks the driver about.
Asked(ps, progs) ==
  {k \in Keys : ps[k].in_map /\ ~ps[k].in_cache /\ IsProgram(progs, ps[k].glprogid)}

\* ProgramShaderCache::Shutdown.  ans: the driver's answers for the entries
\* it is asked about; debugging: g_Config.bEnableShaderDebugging.
Shutdown ==
  /\ phase = "up"
  /\ phase' = "down"
  /\ \E ans \in [Keys -> Answers], debugging \in BOOLEAN :
       LET gate == CacheGate(debugging)
           asked == IF gate THEN Asked(pshaders, glPrograms) ELSE {}
           written == IF diskOpen THEN StoreAll(disk, 1, pshaders, glPrograms, ans)
                      ELSE disk
           st == DestroyAll(glUseProgram(Start, Null), 1)
       IN /\ \A k \in Keys \ asked : ans[k] = [binary_size |-> 1, fails |-> FALSE]
          /\ \A k \in asked : ans[k].binary_size = 0 => ~ans[k].fails
          /\ disk' = IF gate THEN written ELSE disk
          /\ Len(disk') <= MaxLog
          /\ diskOpen' = IF gate THEN FALSE ELSE diskOpen
          /\ Commit([st EXCEPT !.pshaders = [k \in Keys |-> Absent]])
          /\ ev' = [EvOf("Shutdown", Null, Null, st, 0, FALSE) EXCEPT
                      !.gate = gate,
                      !.ans = ans,
                      !.cnt = <<Cardinality(MapKeys(pshaders)),
                                Cardinality({k \in MapKeys(pshaders) : pshaders[k].in_cache}),
                                Len(disk') - Len(disk)>>]
  /\ s_buffer' = Null
  /\ hist' = [k \in Keys |-> "none"]
  /\ UNCHANGED <<last_entry, last_uid, cfgVars, dirty, s_ubo_align,
                 s_ubo_buffer_size, drvAlign, blockSize>>

\* ------------------------------------------------------------ UploadConstants
\* The offsets StreamBuffer::Map can return for the alignment a.
MaxBase == 2
MapOffsets(a) == {ROUND_UP(x, a) : x \in 0..MaxBase}

AnyDirtyAlways(d) == TRUE

\* PixelShaderManager::IsDirty() || VertexShaderManager::IsDirty() ||
\* GeometryShaderManager::IsDirty()
AnyDirty(d) == d[1] \/ d[2] \/ d[3]

\* PixelShaderManager::Clear(), VertexShaderManager::Clear() and
\* GeometryShaderManager::Clear(): the three sources are clean.
Clear(d) == [i \in 1..3 |-> FALSE]

\* The glBindBufferRange calls with the blocks packed without rounding.
BindRangesPacked(base, a, len) ==
  << <<1, base, len[1]>>,
     <<2, base + len[1], len[2]>>,
     <<3, base + len[1] + len[2], len[3]>> >>

\* The three glBindBufferRange calls of UploadConstants, each as
\* <<binding point, offset, length>>, for the mapped offset base, the
\* alignment a and the block lengths len.
BindRanges(base, a, len) ==
  << <<1, base, len[1]>>,
     <<2, base + ROUND_UP(len[1], a), len[2]>>,
     <<3, base + ROUND_UP(len[1], a) + ROUND_UP(len[2], a), len[3]>> >>

\* ProgramShaderCache::UploadConstants.  base: the offset Map returns.
UploadConstants ==
  /\ phase = "up"
  /\ IF AnyDirty(dirty)
     THEN \E base \in MapOffsets(s_ubo_align) :
            /\ ev' = [EvNone EXCEPT
                 !.op = "UploadConstants",
                 !.maps = << <<base, s_ubo_buffer_size>> >>,
                 !.unmaps = 1,
                 !.binds = BindRanges(base, s_ubo_align, blockSize),
                 !.bytes = s_ubo_buffer_size]
            /\ dirty' = Clear(dirty)
     ELSE /\ ev' = [EvNone EXCEPT !.op = "UploadConstants"]
          /\ UNCHANGED dirty
  /\ UNCHANGED <<phase, cacheVars, glVars, cfgVars, diskVars, s_ubo_align,
                 s_ubo_buffer_size, s_buffer, drvAlign, blockSize>>

\* A constant of source i (1: pixel, 2: vertex, 3: geometry) is set: the
\* source is dirty.
SetConstant(i) ==
  /\ dirty' = [dirty EXCEPT ![i] = TRUE]
  /\ ev' = [EvNone EXCEPT !.op = "SetConstant", !.uid = i]
  /\ UNCHANGED <<phase, cacheVars, glVars, cfgVars, diskVars, s_ubo_align,
                 s_ubo_buffer_size, s_buffer, drvAlign, blockSize>>

\* ------------------------------------------------------------ specifications
\* The statics as the process starts, before the first Init.
Statics ==
  /\ phase = "down"
  /\ pshaders = [k \in Keys |-> Absent]
  /\ last_entry = Null
  /\ last_uid = Null
  /\ CurrentProgram = Null
  /\ hist = [k \in Keys |-> "none"]
  /\ glCurrent = Null
  /\ glPrograms = [p \in ProgIds |-> NoProgram]
  /\ disk = <<>>
  /\ diskOpen = FALSE
  /\ s_ubo_align = 0
  /\ s_ubo_buffer_size = 0
  /\ s_buffer = Null
  /\ ev = EvNone

\* One uniform layout, constants never set.
OneLayout ==
  /\ dirty = [i \in 1..3 |-> TRUE]
  /\ drvAlign = 4
  /\ blockSize = <<3, 5, 2>>

\* The program cache on a driver with retrievable program binaries: sessions
\* of Init, SetShader and Shutdown over one disk log, for pipeline states
\* without a geometry stage.
Init ==
  /\ Statics
  /\ OneLayout
  /\ bSupportsGLSLCache = TRUE
  /\ bSupportsBindingLayout \in BOOLEAN
  /\ glNumBinaryFormats = 1

Next ==
  \/ ProgramShaderCache_Init
  \/ \E uid \in Keys : SetShaderNoGeometry(uid)
  \/ Shutdown

Spec == Init /\ [][Next]_vars

\* The program cache on a driver without usable program binaries, with the
\* renderer binding the returned shaders itself.
InitBind ==
  /\ Statics
  /\ OneLayout
  /\ bSupportsGLSLCache \in BOOLEAN
  /\ bSupportsBindingLayout \in BOOLEAN
  /\ glNumBinaryFormats = 0

NextBind ==
  \/ ProgramShaderCache_Init
  \/ \E uid \in Keys : SetShader(uid)
  \/ \E k \in Keys : BindShader(k)
  \/ Shutdown

SpecBind == InitBind /\ [][NextBind]_vars

\* The uniform upload: any alignment and block lengths, no shader resolved.
MaxAlign == 4
Aligns == 0..MaxAlign
MaxBlock == 3
InitUpload ==
  /\ Statics
  /\ bSupportsGLSLCache \in BOOLEAN
  /\ bSupportsBindingLayout = TRUE
  /\ glNumBinaryFormats \in 0..1
  /\ dirty \in [1..3 -> BOOLEAN]
  /\ drvAlign \in Aligns
  /\ blockSize \in [1..3 -> 1..MaxBlock]

NextUpload ==
  \/ ProgramShaderCache_Init
  \/ UploadConstants
  \/ \E i \in 1..3 : SetConstant(i)
  \/ Shutdown

SpecUpload == InitUpload /\ [][NextUpload]_vars

\* ================================================================ claims
\* A step that is a SetShader call for uid.
SetShaderStep(uid) == ev'.op = "SetShader" /\ ev'.uid = uid

\* C1: SetShader is idempotent: two consecutive calls with the same state
\* return the same result (the same shader, or nullptr both times) whether
\* the compilation succeeds or fails, and the second call does not compile.
C1_ResolveIdempotent ==
  [][\A uid \in Keys :
       (ev.op = "SetShader" /\ ev.uid = uid /\ SetShaderStep(uid))
         => (ev'.ret = ev.ret /\ ev'.compile = 0)]_vars

\* C2: once SetShader has failed for a key, every later SetShader of that key
\* in the session returns nullptr again and does not compile.
C2_FailedStaysFailed ==
  [][\A uid \in Keys :
       (phase = "up" /\ hist[uid] = "failed" /\ SetShaderStep(uid))
         => (ev'.ret = Null /\ ev'.compile = 0)]_vars

\* C3: between Init and Shutdown a key that was compiled successfully is
\* never compiled again: every later SetShader of it returns its entry with
\* the same program, whatever was resolved in between; and no entry leaves
\* the map or changes its program before Shutdown.
C3_CompiledOnce ==
  [][/\ \A uid \in Keys :
          (phase = "up" /\ hist[uid] = "ok" /\ SetShaderStep(uid))
            => /\ ev'.compile = 0
               /\ ev'.ret = uid
               /\ pshaders'[uid].glprogid = pshaders[uid].glprogid
     /\ \A k \in Keys :
          (phase = "up" /\ phase' = "up" /\ pshaders[k].in_map)
            => /\ pshaders'[k].in_map
               /\ pshaders'[k].glprogid = pshaders[k].glprogid]_vars

\* C3's case: key 1 and then key 2 were compiled, and key 1 was resolved
\* again from the map, rebinding its program.
C3_Witness ==
  /\ ev.op = "SetShader" /\ ev.uid = 1 /\ ev.ret = 1
  /\ ev.compile = 0 /\ ev.use = 1
  /\ hist = <<"ok", "ok", "none">>
  /\ MapKeys(pshaders) = {1, 2}
  /\ glCurrent = pshaders[1].glprogid

\* A key whose SetShader is expected to give a program: it compiled, or
\* compiles in this step, successfully, or its entry came from the disk log.
ValidState(uid) == hist'[uid] = "ok" \/ pshaders[uid].in_cache

\* C4: when a stage compile fails in SetShader of a new key, SetShader returns
\* nullptr, issues no glUseProgram and leaves the tracked and the driver's
\* bound program as they were, and at least one dump is written; and the next
\* SetShader, of a different valid state, returns its shader with its
\* program bound.
C4_StageFailure ==
  [][/\ (ev'.op = "SetShader" /\ ev'.compile = 1 /\ ev'.stage)
          => /\ ev'.ret = Null
             /\ ev'.use = 0
             /\ CurrentProgram' = CurrentProgram
             /\ glCurrent' = glCurrent
             /\ ev'.dumps >= 1
     /\ \A uid \in Keys :
          (/\ ev.op = "SetShader" /\ ev.compile = 1 /\ ev.stage
           /\ uid # ev.uid /\ SetShaderStep(uid) /\ ValidState(uid))
            => /\ ev'.ret = uid
               /\ glCurrent' = pshaders'[uid].glprogid]_vars

\* C5: SHADER::Bind of a shader whose glprogid is the tracked program issues
\* no glUseProgram and leaves the tracked program and numShaderChanges alone;
\* Bind of any other shader issues exactly one glUseProgram, tracks its
\* glprogid and adds one to numShaderChanges.
C5_Bind ==
  [][\A k \in Keys :
       (ev'.op = "Bind" /\ ev'.uid = k)
         => IF pshaders[k].glprogid = CurrentProgram
            THEN ev'.use = 0 /\ ev'.chg = 0 /\ CurrentProgram' = CurrentProgram
            ELSE ev'.use = 1 /\ ev'.chg = 1
                 /\ CurrentProgram' = pshaders[k].glprogid]_vars

\* C5's case: Bind has switched to another program.
C5_Witness ==
  /\ ev.op = "Bind" /\ ev.use = 1 /\ ev.chg = 1
  /\ pshaders[ev.uid].glprogid = CurrentProgram
  /\ glCurrent = CurrentProgram
  /\ CurrentProgram # Null

\* The records the replay of the last Init had accepted, and the program made
\* from record i.
Accepted == {a[1] : a \in ev.acc}
ProgramOf(i) == (CHOOSE a \in ev.acc : a[1] = i)[2]
SameKey(i, j) == disk[i].key = disk[j].key

\* C6 as claimed: after the replay, a key that occurs in several accepted
\* records has the program of the first of them in file order.
C6_FirstWins ==
  (ev.op = "Init" /\ ev.replay)
    => \A i \in Accepted :
         (\A j \in Accepted : SameKey(i, j) => i <= j)
           => pshaders[disk[i].key].glprogid = ProgramOf(i)

\* C6: after the replay, a key that occurs in several accepted records has
\* the program of the last of them in file order, marked as in the cache;
\* every accepted record replaces what an earlier one had stored.
C6_LastWins ==
  (ev.op = "Init" /\ ev.replay)
    => \A i \in Accepted :
         (\A j \in Accepted : SameKey(i, j) => j <= i)
           => /\ pshaders[disk[i].key].in_map
              /\ pshaders[disk[i].key].in_cache
              /\ pshaders[disk[i].key].glprogid = ProgramOf(i)

\* C6's case: the replay has accepted two records of one key.
C6_Witness ==
  /\ ev.op = "Init" /\ ev.replay
  /\ \E i, j \in Accepted : i < j /\ SameKey(i, j)

\* C7: when Shutdown returns the driver has no program in use, the program
\* of every entry is destroyed, the map is empty and last_entry is null.
C7_ShutdownClears ==
  [][(phase = "up" /\ phase' = "down")
       => /\ glCurrent' = Null
          /\ \A k \in MapKeys(pshaders) : ~IsProgram(glPrograms', pshaders[k].glprogid)
          /\ MapKeys(pshaders') = {}
          /\ last_entry' = Null]_vars

\* An entry Shutdown can serialize, given the driver's answers: its program
\* is linked, is not flagged for deletion, has a binary, and no query fails.
Serializable(k) ==
  /\ IsProgram(glPrograms, pshaders[k].glprogid)
  /\ glPrograms[pshaders[k].glprogid].linked
  /\ ~glPrograms[pshaders[k].glprogid].del
  /\ ev'.ans[k].binary_size # 0
  /\ ~ev'.ans[k].fails

\* The entries a Shutdown is to write.
Unsaved == {k \in MapKeys(pshaders) : ~pshaders[k].in_cache /\ Serializable(k)}

\* C8: a Shutdown with the disk cache in use (the gate holds and Init has
\* opened the log) leaves the old records in place and adds exactly one
\* record for every entry that is not marked as in the cache and is
\* serializable, and none for any other entry.
C8_ShutdownAppends ==
  [][(phase = "up" /\ phase' = "down" /\ ev'.gate /\ diskOpen)
       => /\ Len(disk') = Len(disk) + Cardinality(Unsaved)
          /\ SubSeq(disk', 1, Len(disk)) = disk
          /\ \A k \in Unsaved :
               \E i \in (Len(disk) + 1)..Len(disk') : disk'[i].key = k
          /\ \A i \in (Len(disk) + 1)..Len(disk') : disk'[i].key \in Unsaved]_vars

\* C8's case: a Shutdown over three entries, one of them from the disk log
\* and one not serializable, has added one record.
C8_Witness ==
  /\ ev.op = "Shutdown" /\ ev.gate
  /\ ev.cnt = <<3, 1, 1>>
  /\ Len(disk) = 2

\* C9: when the replay accepts every record of the log, every key of the log
\* has an entry with a program in the map after Init; and SetShader of a key
\* whose entry came from the log returns that entry unchanged and does not
\* compile.
C9_RoundTrip ==
  [][/\ (ev'.op = "Init" /\ ev'.replay /\ {a[1] : a \in ev'.acc} = 1..Len(disk))
          => \A i \in 1..Len(disk) :
               /\ pshaders'[disk[i].key].in_map
               /\ IsProgram(glPrograms', pshaders'[disk[i].key].glprogid)
               /\ glPrograms'[pshaders'[disk[i].key].glprogid].linked
     /\ \A uid \in Keys :
          (phase = "up" /\ pshaders[uid].in_cache /\ SetShaderStep(uid))
            => /\ ev'.compile = 0
               /\ ev'.ret = uid
               /\ pshaders'[uid] = pshaders[uid]]_vars

\* C9's case: two records of different keys were replayed and accepted, and
\* SetShader has returned the entry of one of them.
C9_Witness ==
  /\ Len(disk) = 2 /\ disk[1].key # disk[2].key
  /\ pshaders[disk[1].key].in_cache /\ pshaders[disk[2].key].in_cache
  /\ ev.op = "SetShader" /\ ev.compile = 0
  /\ ev.ret = disk[2].key
  /\ glCurrent = pshaders[disk[2].key].glprogid

\* What an UploadConstants that does nothing leaves in ev.
NoUpload(e) == e.maps = <<>> /\ e.unmaps = 0 /\ e.binds = <<>> /\ e.bytes = 0

\* C10: UploadConstants maps, unmaps and binds only when a source is dirty,
\* and leaves all three sources clean; so an UploadConstants that directly
\* follows another one maps, unmaps and binds nothing and streams no bytes.
C10_UploadIfDirty ==
  [][ev'.op = "UploadConstants"
       => /\ ~(dirty[1] \/ dirty[2] \/ dirty[3]) => NoUpload(ev')
          /\ (dirty[1] \/ dirty[2] \/ dirty[3])
               => Len(ev'.maps) = 1 /\ ev'.unmaps = 1 /\ Len(ev'.binds) = 3
          /\ \A i \in 1..3 : ~dirty'[i]
          /\ ev.op = "UploadConstants" => NoUpload(ev')]_vars

\* C10's case: an UploadConstants has found all sources clean and done
\* nothing.
C10_Witness ==
  /\ ev.op = "UploadConstants" /\ NoUpload(ev)
  /\ \A i \in 1..3 : ~dirty[i]

\* C11: an Init that finds the driver's uniform-buffer offset alignment to be
\* zero ends in a fatal initialization error: it neither creates the
\* StreamBuffer nor replays the disk log, and the cache does not come up.
C11_AlignmentChecked ==
  [][(ev'.op = "Init" /\ drvAlign = 0)
       => /\ s_buffer' = Null
          /\ ~ev'.replay
          /\ phase' = "down"]_vars

\* The map's entry of k owns a linked program that is not flagged for
\* deletion.
OwnsProgram(k) ==
  /\ pshaders'[k].in_map
  /\ IsProgram(glPrograms', pshaders'[k].glprogid)
  /\ glPrograms'[pshaders'[k].glprogid].linked
  /\ ~glPrograms'[pshaders'[k].glprogid].del

\* C12: between Init and Shutdown every key of the map, and the entry
\* last_entry points to, owns a linked program that is not deleted; and a
\* SetShader whose compilation fails leaves the set of keys of the map as it
\* was.
C12_OnlyCompiledEntries ==
  [][/\ phase' = "up"
          => /\ \A k \in MapKeys(pshaders') : OwnsProgram(k)
             /\ last_entry' # Null => OwnsProgram(last_entry')
     /\ (ev'.op = "SetShader" /\ ev'.compile = 1 /\ ev'.ret = Null)
          => MapKeys(pshaders') = MapKeys(pshaders)]_vars

\* A step that is a SetShader call which ran the compilation pipeline.
CompileStep == ev'.op = "SetShader" /\ ev'.compile = 1

\* C13 as claimed: when a stage fails to compile no later stage is handed to
\* the driver, so the request has the alert and the dump of one stage only,
\* the last one submitted.
C13_AbortsAtFirstFailure ==
  [][(CompileStep /\ ev'.stage)
       => /\ Len(ev'.bad) = 1
          /\ ev'.dumps = 1
          /\ ev'.sub[Len(ev'.sub)] = ev'.bad[1]]_vars

\* C13: every requested stage is handed to the driver, in the order vertex,
\* fragment, geometry, whether or not an earlier one failed; every failing
\* stage has its own alert and dump; when a stage has failed the request
\* creates and links no program and ends as failed.
C13_AllStagesCompiled ==
  [][CompileStep
       => /\ ev'.sub \in {<<GL_VERTEX_SHADER, GL_FRAGMENT_SHADER>>,
                          <<GL_VERTEX_SHADER, GL_FRAGMENT_SHADER, GL_GEOMETRY_SHADER>>}
          /\ \A i \in 1..Len(ev'.bad) : \E j \in 1..Len(ev'.sub) : ev'.sub[j] = ev'.bad[i]
          /\ \A i, j \in 1..Len(ev'.bad) : i < j => ev'.bad[i] < ev'.bad[j]
          /\ ev'.stage <=> ev'.bad # <<>>
          /\ ev'.stage => /\ ev'.dumps = Len(ev'.bad)
                          /\ ev'.ret = Null
                          /\ glPrograms' = glPrograms]_vars

\* C13's case: the vertex stage has failed, and the fragment and the geometry
\* stage were compiled all the same, the geometry stage failing too.
C13_Witness ==
  /\ ev.op = "SetShader" /\ ev.compile = 1 /\ ev.stage
  /\ ev.sub = <<GL_VERTEX_SHADER, GL_FRAGMENT_SHADER, GL_GEOMETRY_SHADER>>
  /\ ev.bad = <<GL_VERTEX_SHADER, GL_GEOMETRY_SHADER>>
  /\ ev.dumps = 2

\* C14: CompileShader creates a program only when every requested stage has
\* compiled: after a stage failure the driver's programs are as before, and
\* a request that got as far as creating a program had no failing stage.  On
\* every path, no stage shader object of the request is left that was not
\* handed to glDeleteShader.
C14_LinkOnlyCompiled ==
  [][CompileStep
       => /\ ev'.stage => (glPrograms' = glPrograms /\ ev'.ret = Null)
          /\ (glPrograms' # glPrograms \/ ev'.ret # Null) => ev'.bad = <<>>
          /\ ev'.sh = {}]_vars

\* C14's cases: a request with a failed stage, one with a failed link and a
\* successful one have each returned with all their stage objects deleted.
C14_Witness ==
  /\ ev.op = "SetShader" /\ ev.compile = 1 /\ ev.sh = {}
  /\ ev.stage /\ ev.bad = <<GL_FRAGMENT_SHADER>>
  /\ Len(ev.sub) = 3
  /\ \E k \in Keys : hist[k] = "failed" /\ pshaders[k].glprogid # Null
  /\ \E k \in Keys : hist[k] = "ok"

\* The program objects the driver has.
Live(progs) == {p \in ProgIds : progs[p].live}

\* C15: a replay leaves in the map exactly the keys of the records the
\* driver has accepted, each marked as in the cache, and leaves no program
\* of a rejected record behind; SetShader of a key the map does not hold
\* (as after the rejection of its records) compiles it and makes an entry
\* that is not marked as in the cache; and Shutdown appends no record for an
\* entry marked as in the cache.
C15_RejectedDropped ==
  [][/\ (ev'.op = "Init" /\ ev'.replay)
          => /\ MapKeys(pshaders') = {disk[a[1]].key : a \in ev'.acc}
             /\ \A k \in MapKeys(pshaders') : pshaders'[k].in_cache
             /\ Live(glPrograms') = Live(glPrograms) \cup {a[2] : a \in ev'.acc}
     /\ \A uid \in Keys :
          (phase = "up" /\ ~pshaders[uid].in_map /\ SetShaderStep(uid))
            => /\ ev'.compile = 1
               /\ pshaders'[uid].in_map
               /\ ~pshaders'[uid].in_cache
     /\ (phase = "up" /\ phase' = "down")
          => \A i \in (Len(disk) + 1)..Len(disk') :
               ~pshaders[disk'[i].key].in_cache]_vars

\* C15's case: the replay has accepted the record of one key and rejected
\* the only record of another, and SetShader has compiled the latter.
C15_Witness ==
  /\ ev.op = "SetShader" /\ ev.compile = 1 /\ ev.ret = ev.uid
  /\ Len(disk) = 2 /\ disk[1].key # disk[2].key
  /\ \E i \in 1..2 : disk[i].key = ev.uid
  /\ ~pshaders[ev.uid].in_cache
  /\ \E k \in Keys : pshaders[k].in_cache

\* C16, on a session of an Init directly followed by Shutdown: Shutdown runs
\* its append loop, Sync and Close exactly when that Init has opened and
\* replayed the log, whatever the flags are at the two moments; and it
\* leaves the log as it was when Init has not opened it.
C16_SameGate ==
  [][(ev.op = "Init" /\ phase = "up" /\ phase' = "down")
       => /\ ev'.gate <=> ev.replay
          /\ ~ev.replay => disk' = disk]_vars

\* The least multiple of a that is not below x.
Rounded(x, a) == CHOOSE m \in x..(x + a) : m % a = 0 /\ \A n \in x..(m - 1) : n % a # 0

\* C17: for a positive alignment a and block lengths p, v, g, a dirty
\* UploadConstants maps one region of R(p)+R(v)+R(g) bytes and binds the
\* binding points 1, 2, 3 to the ranges that start at base, base+R(p) and
\* base+R(p)+R(v) and have the lengths p, v, g; the ranges do not overlap,
\* lie inside the mapped region, and start at multiples of a when base is
\* one.
C17_UploadLayout ==
  [][(ev'.op = "UploadConstants" /\ ev'.maps # <<>> /\ s_ubo_align > 0)
       => LET a == s_ubo_align
              p == blockSize[1]
              v == blockSize[2]
              g == blockSize[3]
              base == ev'.maps[1][1]
              size == ev'.maps[1][2]
              b == ev'.binds
          IN /\ Len(ev'.maps) = 1
             /\ size = Rounded(p, a) + Rounded(v, a) + Rounded(g, a)
             /\ size = s_ubo_buffer_size
             /\ b = << <<1, base, p>>,
                       <<2, base + Rounded(p, a), v>>,
                       <<3, base + Rounded(p, a) + Rounded(v, a), g>> >>
             /\ b[1][2] + b[1][3] <= b[2][2]
             /\ b[2][2] + b[2][3] <= b[3][2]
             /\ \A i \in 1..3 : base <= b[i][2] /\ b[i][2] + b[i][3] <= base + size
             /\ base % a = 0 => \A i \in 1..3 : b[i][2] % a = 0]_vars

\* C17's case: with the alignment 4 and blocks of 3, 1 and 2 bytes, an
\* upload mapped at offset 4 has bound the ranges at 4, 8 and 12.
C17_Witness ==
  /\ ev.op = "UploadConstants"
  /\ s_ubo_align = 4 /\ blockSize = <<3, 1, 2>>
  /\ ev.maps = << <<4, 12>> >>
  /\ ev.binds = << <<1, 4, 3>>, <<2, 8, 1>>, <<3, 12, 2>> >>

\* C18: between Init and Shutdown a non-null last_entry is the map's entry
\* of last_uid; a SetShader that takes the fast path returns the entry the
\* map holds for the uid it was given, and leaves the map as it was.
C18_FastPathIsLookup ==
  [][/\ (phase' = "up" /\ last_entry' # Null)
          => (last_entry' = last_uid' /\ pshaders'[last_uid'].in_map)
     /\ \A uid \in Keys :
          (SetShaderStep(uid) /\ ev'.fast)
            => /\ pshaders[uid].in_map
               /\ ev'.ret = uid
               /\ ev'.compile = 0
               /\ pshaders' = pshaders]_vars

\* C18's case: with two keys in the map, SetShader has taken the fast path
\* and returned the entry of the key it was given.
C18_Witness ==
  /\ ev.op = "SetShader" /\ ev.fast
  /\ ev.ret = ev.uid /\ last_entry = ev.uid /\ last_uid = ev.uid
  /\ Cardinality(MapKeys(pshaders)) = 2
  /\ hist[ev.uid] = "ok"

\* C19: the tracked program is the program the driver has in use.
C19_TrackedIsBound == CurrentProgram = glCurrent

\* C20: every program object the driver has is the program of exactly one
\* entry of the map (so there is none once Shutdown has cleared the map),
\* and no entry of the map holds the name of a program that was deleted.
C20_ProgramsOwned ==
  /\ \A p \in Live(glPrograms) :
       Cardinality({k \in MapKeys(pshaders) : pshaders[k].glprogid = p}) = 1
  /\ \A k \in MapKeys(pshaders) :
       pshaders[k].glprogid # Null => IsProgram(glPrograms, pshaders[k].glprogid)

====
